---------------------------- MODULE Spec2Model ----------------------------
(***************************************************************************)
(* The profitability calculator of src/src/App.jsx (and the earlier copy   *)
(* of the same component kept in src/unnamed/part_000).                    *)
(*                                                                         *)
(* Four raw input strings are held in React state; an effect runs          *)
(* calculateMetrics whenever one of them changed, which stores four        *)
(* derived metrics (a number or null); the render classifies each metric   *)
(* with getBenchmarkStatus.                                                *)
(*                                                                         *)
(* Strings are sequences of one-character strings.  JavaScript numbers are *)
(* modelled as exact rationals plus NaN and the two infinities; the        *)
(* rounding of IEEE doubles and the sign of zero are not modelled.         *)
(***************************************************************************)
EXTENDS Integers, Sequences, FiniteSets, TLC

(***************************************************************************)
(* Bounds of the model.                                                    *)
(***************************************************************************)
\* most characters of a raw input text after its optional sign
MaxLen == 1
\* longest text a change event carries (e.target.value), the pasted
\* number Huge apart
MaxIncoming == 1

\* longest text a change event of the InputField observed on its own carries
MaxTyped == 3
\* classifier arguments: numerators range over -MaxNum .. MaxNum
MaxNum == 22
\* classifier arguments: denominators range over 1 .. MaxDen
MaxDen == 2

(***************************************************************************)
(* JavaScript values: numbers, null, undefined, and the one object shape   *)
(* the program uses ({ideal, max}).                                        *)
(***************************************************************************)
RECURSIVE GCD(_, _)
GCD(a, b) == IF b = 0 THEN a ELSE GCD(b, a % b)

Abs(x) == IF x < 0 THEN -x ELSE x

Sign(x) == IF x < 0 THEN -1 ELSE IF x > 0 THEN 1 ELSE 0

\* the rational n/d in lowest terms, the sign carried by the numerator
Num(n, d) ==
    LET g == GCD(Abs(n), Abs(d))
        s == IF d < 0 THEN -1 ELSE 1
    IN  [k |-> "num", n |-> (s * n) \div g, d |-> Abs(d) \div g]

NaN == [k |-> "nan", n |-> 0, d |-> 1]

\* Infinity (s = 1) and -Infinity (s = -1)
Inf(s) == [k |-> "inf", n |-> s, d |-> 1]

Null == [k |-> "null", n |-> 0, d |-> 1]

Undefined == [k |-> "undefined", n |-> 0, d |-> 1]

Obj(i, m) == [k |-> "obj", ideal |-> i, max |-> m]

\* ToNumber as the relational operators apply it to the values above:
\* undefined and a plain object give NaN, null gives 0
ToNumber(v) ==
    CASE v.k \in {"num", "inf", "nan"} -> v
      [] v.k = "null" -> Num(0, 1)
      [] OTHER -> NaN

isNaN(v) == ToNumber(v).k = "nan"

\* a / b on numbers
Div(a, b) ==
    CASE a.k = "nan" \/ b.k = "nan" -> NaN
      [] a.k = "inf" /\ b.k = "inf" -> NaN
      [] a.k = "inf" -> Inf(IF b.n < 0 THEN -a.n ELSE a.n)
      [] b.k = "inf" -> Num(0, 1)
      [] b.n = 0 -> IF a.n = 0 THEN NaN ELSE Inf(Sign(a.n))
      [] OTHER -> Num(a.n * b.d, a.d * b.n)

\* a * b on numbers
Mul(a, b) ==
    CASE a.k = "nan" \/ b.k = "nan" -> NaN
      [] a.k = "inf" \/ b.k = "inf" ->
            IF a.n = 0 \/ b.n = 0 THEN NaN ELSE Inf(Sign(a.n) * Sign(b.n))
      [] OTHER -> Num(a.n * b.n, a.d * b.d)

\* x < y on numbers (false when either is NaN)
LtNum(x, y) ==
    CASE x.k = "nan" \/ y.k = "nan" -> FALSE
      [] x.k = "inf" /\ y.k = "inf" -> x.n < y.n
      [] x.k = "inf" -> x.n < 0
      [] y.k = "inf" -> y.n > 0
      [] OTHER -> x.n * y.d < y.n * x.d

EqNum(x, y) ==
    CASE x.k = "nan" \/ y.k = "nan" -> FALSE
      [] x.k = "inf" \/ y.k = "inf" -> x.k = y.k /\ x.n = y.n
      [] OTHER -> x.n * y.d = y.n * x.d

\* the relational operators of the language: a < b, a > b, a <= b
Lt(a, b) == LtNum(ToNumber(a), ToNumber(b))

Gt(a, b) == LtNum(ToNumber(b), ToNumber(a))

Le(a, b) == LtNum(ToNumber(a), ToNumber(b)) \/ EqNum(ToNumber(a), ToNumber(b))

(***************************************************************************)
(* parseFloat: skip leading white space, read an optional sign and the     *)
(* longest decimal literal that follows, ignore what comes after it; NaN   *)
(* when no digit was read.  (The exponent part and the word Infinity need  *)
(* characters outside the alphabet of the model.)  The largest double has  *)
(* 309 digits before the point: a literal with more is read as Infinity.   *)
(* (One of exactly 309 digits may be too, and none is in the model.)       *)
(***************************************************************************)
DigitChars == <<"0", "1", "2", "3", "4", "5", "6", "7", "8", "9">>

Digits == {DigitChars[i] : i \in 1..10}

DigitVal(c) == (CHOOSE i \in 1..10 : DigitChars[i] = c) - 1

RECURSIVE Pow10(_)
Pow10(e) == IF e = 0 THEN 1 ELSE 10 * Pow10(e - 1)

\* the length of the longest prefix of s whose characters are all in A
PrefixLen(s, A) ==
    LET others == {i \in 1..Len(s) : s[i] \notin A}
    IN  IF others = {} THEN Len(s)
        ELSE (CHOOSE i \in others : \A j \in others : i <= j) - 1

TrimStart(s) == SubSeq(s, PrefixLen(s, {" "}) + 1, Len(s))

\* the longest prefix of s made of digits
DigitPrefix(s) == SubSeq(s, 1, PrefixLen(s, Digits))

\* the value of a sequence of digits (0 for the empty one)
RECURSIVE IntVal(_)
IntVal(ds) ==
    IF Len(ds) = 0 THEN 0
    ELSE 10 * IntVal(SubSeq(ds, 1, Len(ds) - 1)) + DigitVal(ds[Len(ds)])

\* a sequence of digits without its leading zeros
DropZeros(ds) == SubSeq(ds, PrefixLen(ds, {"0"}) + 1, Len(ds))

parseFloat(str) ==
    LET t    == TrimStart(str)
        sgn  == IF Len(t) > 0 /\ t[1] = "-" THEN -1 ELSE 1
        u    == IF Len(t) > 0 /\ t[1] \in {"+", "-"} THEN Tail(t) ELSE t
        ip   == DigitPrefix(u)
        rest == SubSeq(u, Len(ip) + 1, Len(u))
        fp   == IF Len(rest) > 0 /\ rest[1] = "."
                THEN DigitPrefix(Tail(rest)) ELSE <<>>
    IN  IF Len(ip) = 0 /\ Len(fp) = 0
        THEN NaN
        ELSE IF Len(DropZeros(ip)) > 309
        THEN Inf(sgn)
        ELSE Num(sgn * (IntVal(ip) * Pow10(Len(fp)) + IntVal(fp)),
                 Pow10(Len(fp)))

(***************************************************************************)
(* calculateMetrics: the gate on the four parsed values, the value each    *)
(* setter receives, and the four of them together.                         *)
(***************************************************************************)
Zero == Num(0, 1)

Hundred == Num(100, 1)

\* if (isNaN(tic) || isNaN(pans) || isNaN(ebitdaPct) || isNaN(arc))
anyInvalid_SkipsRent(tic, pans, ebitdaPct, arc) ==
    isNaN(tic) \/ isNaN(pans) \/ isNaN(ebitdaPct)

anyInvalid(tic, pans, ebitdaPct, arc) ==
    isNaN(tic) \/ isNaN(pans) \/ isNaN(ebitdaPct) \/ isNaN(arc)

\* setSalesToInvestmentRatio(tic > 0 ? pans / tic : null)
ratioValue_NonZeroGuard(tic, pans) ==
    IF ~EqNum(tic, Zero) THEN Div(pans, tic) ELSE Null

ratioValue(tic, pans) ==
    IF Gt(tic, Zero) THEN Div(pans, tic) ELSE Null

\* setPaybackPeriod(pae > 0 ? tic / pae : null)
paybackValue_NeedsCost(tic, pae) ==
    IF Gt(pae, Zero) /\ Gt(tic, Zero) THEN Div(tic, pae) ELSE Null

paybackValue_NonNegativeGuard(tic, pae) ==
    IF ~Lt(pae, Zero) THEN Div(tic, pae) ELSE Null

paybackValue(tic, pae) ==
    IF Gt(pae, Zero) THEN Div(tic, pae) ELSE Null

\* setRoi(tic > 0 ? (pae / tic) * 100 : null)
roiValue_Fraction(tic, pae) ==
    IF Gt(tic, Zero) THEN Div(pae, tic) ELSE Null

roiValue(tic, pae) ==
    IF Gt(tic, Zero) THEN Mul(Div(pae, tic), Hundred) ELSE Null

\* setRentFactor(pans > 0 ? (arc / pans) * 100 : null)
rentFactorValue(pans, arc) ==
    IF Gt(pans, Zero) THEN Mul(Div(arc, pans), Hundred) ELSE Null

AllNull ==
    [salesToInvestmentRatio |-> Null, paybackPeriod |-> Null,
     roi |-> Null, rentFactor |-> Null]

calculateMetrics(ic, ans, ep, rc) ==
    LET tic       == parseFloat(ic)
        pans      == parseFloat(ans)
        ebitdaPct == Div(parseFloat(ep), Hundred)
        arc       == parseFloat(rc)
        pae       == Mul(pans, ebitdaPct)
    IN  IF anyInvalid(tic, pans, ebitdaPct, arc)
        THEN AllNull
        ELSE [salesToInvestmentRatio |-> ratioValue(tic, pans),
              paybackPeriod |-> paybackValue(tic, pae),
              roi |-> roiValue(tic, pae),
              rentFactor |-> rentFactorValue(pans, arc)]

(***************************************************************************)
(* The benchmarks object and getBenchmarkStatus.  The function exists in   *)
(* two forms: the one of src/src/App.jsx has no case for 'roi', the one of *)
(* src/unnamed/part_000 has.                                               *)
(***************************************************************************)
benchmarks ==
    [salesToInvestmentRatio |-> Num(3, 2),
     paybackPeriod |-> Obj(Num(5, 1), Num(7, 1)),
     roi |-> Num(20, 1),
     rentFactor |-> Num(10, 1)]

\* benchmark.ideal and benchmark.max: undefined on a number
ideal(b) == IF b.k = "obj" THEN b.ideal ELSE Undefined

max(b) == IF b.k = "obj" THEN b.max ELSE Undefined

Status(text, color) == [text |-> text, color |-> color]

\* case 'salesToInvestmentRatio'
ratioStatus_AtLeast(value, benchmark) ==
    IF ~Lt(value, benchmark) /\ ~isNaN(benchmark)
    THEN Status("Meets Target", "text-green-600")
    ELSE Status("Below Target", "text-red-600")

ratioStatus(value, benchmark) ==
    IF Gt(value, benchmark)
    THEN Status("Meets Target", "text-green-600")
    ELSE Status("Below Target", "text-red-600")

\* case 'paybackPeriod'
paybackStatus_StrictIdeal(value, benchmark) ==
    IF Lt(value, ideal(benchmark))
    THEN Status("Excellent", "text-green-600")
    ELSE IF Lt(value, max(benchmark))
         THEN Status("Good", "text-yellow-600")
         ELSE Status("High Risk", "text-red-600")

paybackStatus(value, benchmark) ==
    IF Le(value, ideal(benchmark))
    THEN Status("Excellent", "text-green-600")
    ELSE IF Lt(value, max(benchmark))
         THEN Status("Good", "text-yellow-600")
         ELSE Status("High Risk", "text-red-600")

\* case 'roi' (src/unnamed/part_000 only)
roiStatus(value, benchmark) ==
    IF Gt(value, benchmark)
    THEN Status("Meets Target", "text-green-600")
    ELSE Status("Below Target", "text-red-600")

\* case 'rentFactor'
rentFactorStatus_AtMost(value, benchmark) ==
    IF Le(value, benchmark)
    THEN Status("Meets Target", "text-green-600")
    ELSE Status("High", "text-red-600")

rentFactorStatus(value, benchmark) ==
    IF Lt(value, benchmark)
    THEN Status("Meets Target", "text-green-600")
    ELSE Status("High", "text-red-600")

\* getBenchmarkStatus without its first line: null reaches the switch
getBenchmarkStatus_NoNullCheck(value, benchmark, type) ==
    CASE type = "salesToInvestmentRatio" -> ratioStatus(value, benchmark)
      [] type = "paybackPeriod" -> paybackStatus(value, benchmark)
      [] type = "rentFactor" -> rentFactorStatus(value, benchmark)
      [] OTHER -> Status("", "")

\* getBenchmarkStatus whose default case answers as for a null value
getBenchmarkStatus_DefaultNA(value, benchmark, type) ==
    IF value = Null THEN Status("N/A", "text-gray-500")
    ELSE CASE type = "salesToInvestmentRatio" -> ratioStatus(value, benchmark)
           [] type = "paybackPeriod" -> paybackStatus(value, benchmark)
           [] type = "rentFactor" -> rentFactorStatus(value, benchmark)
           [] OTHER -> Status("N/A", "text-gray-500")

\* src/src/App.jsx
getBenchmarkStatus(value, benchmark, type) ==
    IF value = Null THEN Status("N/A", "text-gray-500")
    ELSE CASE type = "salesToInvestmentRatio" -> ratioStatus(value, benchmark)
           [] type = "paybackPeriod" -> paybackStatus(value, benchmark)
           [] type = "rentFactor" -> rentFactorStatus(value, benchmark)
           [] OTHER -> Status("", "")

\* src/unnamed/part_000
getBenchmarkStatus_part_000(value, benchmark, type) ==
    IF value = Null THEN Status("N/A", "text-gray-500")
    ELSE CASE type = "salesToInvestmentRatio" -> ratioStatus(value, benchmark)
           [] type = "paybackPeriod" -> paybackStatus(value, benchmark)
           [] type = "roi" -> roiStatus(value, benchmark)
           [] type = "rentFactor" -> rentFactorStatus(value, benchmark)
           [] OTHER -> Status("", "")

(***************************************************************************)
(* InputField.handleChange of src/src/App.jsx: the text of a change event  *)
(* loses its commas and is stored only if it is empty or digits with at    *)
(* most one decimal point after them.                                      *)
(***************************************************************************)
stripCommas(val) == SelectSeq(val, LAMBDA c : c # ",")

\* a looser filter, /^(\d[\d.]*)?$/: any number of points after a digit
matchesDecimal_AnyDots(raw) ==
    \/ raw = <<>>
    \/ /\ raw[1] \in Digits
       /\ \A i \in 1..Len(raw) : raw[i] \in Digits \cup {"."}

\* /^(\d+(\.\d*)?)?$/.test(raw)
matchesDecimal(raw) ==
    \/ raw = <<>>
    \/ LET ip   == DigitPrefix(raw)
           rest == SubSeq(raw, Len(ip) + 1, Len(raw))
       IN  /\ Len(ip) >= 1
           /\ \/ rest = <<>>
              \/ /\ rest[1] = "."
                 /\ DigitPrefix(Tail(rest)) = Tail(rest)

\* what handleChange hands to onChange for a '$' or '%' field, or the
\* current value when it does not call onChange
handleChange(current, incoming) ==
    LET raw == stripCommas(incoming)
    IN  IF raw = <<>> \/ matchesDecimal(raw) THEN raw ELSE current

\* the texts a change event may carry
EventAlphabet == {"0", "1", ".", ",", "-"}

(***************************************************************************)
(* The state of the App component.                                         *)
(***************************************************************************)
VARIABLES
    \* the four useState cells of the inputs (strings)
    investmentCost, annualNetSales, ebitdaPercentage, annualRentCam,
    \* the four useState cells of the metrics (a number or null)
    salesToInvestmentRatio, paybackPeriod, roi, rentFactor,
    \* the effect that calls calculateMetrics is scheduled
    effectPending,
    \* one call of getBenchmarkStatus: the file whose function is called,
    \* its three arguments and what it returned
    file, value, benchmark, type, status,
    \* one InputField under observation: its unit prop and the text of the
    \* last change event it handled (e.target.value)
    unit, incoming

inputs == <<investmentCost, annualNetSales, ebitdaPercentage, annualRentCam>>

metrics == <<salesToInvestmentRatio, paybackPeriod, roi, rentFactor>>

call == <<file, value, benchmark, type, status>>

event == <<unit, incoming>>

vars == <<inputs, metrics, effectPending, call, event>>

\* no call of getBenchmarkStatus has returned
NotCalled == Status("(not called)", "(not called)")

NoCall ==
    /\ file = "src/App.jsx"
    /\ value = Null
    /\ benchmark = benchmarks.salesToInvestmentRatio
    /\ type = "salesToInvestmentRatio"
    /\ status = NotCalled

\* no InputField is under observation
NoEvent ==
    /\ unit = "$"
    /\ incoming = <<>>

\* an incremental update: a metric that is present keeps its value
Effect_KeepsPresent ==
    /\ effectPending
    /\ LET m == calculateMetrics(investmentCost, annualNetSales,
                                 ebitdaPercentage, annualRentCam)
           keep(old, new) == IF old # Null THEN old ELSE new
       IN  /\ salesToInvestmentRatio' =
                  keep(salesToInvestmentRatio, m.salesToInvestmentRatio)
           /\ paybackPeriod' = keep(paybackPeriod, m.paybackPeriod)
           /\ roi' = keep(roi, m.roi)
           /\ rentFactor' = keep(rentFactor, m.rentFactor)
    /\ effectPending' = FALSE
    /\ UNCHANGED <<inputs, call, event>>

\* useEffect(() => calculateMetrics(), [calculateMetrics]): runs after the
\* mount and after every render in which one of the four inputs changed
Effect ==
    /\ effectPending
    /\ LET m == calculateMetrics(investmentCost, annualNetSales,
                                 ebitdaPercentage, annualRentCam)
       IN  /\ salesToInvestmentRatio' = m.salesToInvestmentRatio
           /\ paybackPeriod' = m.paybackPeriod
           /\ roi' = m.roi
           /\ rentFactor' = m.rentFactor
    /\ effectPending' = FALSE
    /\ UNCHANGED <<inputs, call, event>>

\* the three statuses the render shows
renderedStatuses ==
    [salesToInvestmentRatio |->
        getBenchmarkStatus(salesToInvestmentRatio,
                           benchmarks.salesToInvestmentRatio,
                           "salesToInvestmentRatio"),
     paybackPeriod |->
        getBenchmarkStatus(paybackPeriod, benchmarks.paybackPeriod,
                           "paybackPeriod"),
     rentFactor |->
        getBenchmarkStatus(rentFactor, benchmarks.rentFactor, "rentFactor")]

(***************************************************************************)
(* calculateMetrics as a function of the four raw strings: in each state   *)
(* cell any text made of an optional minus sign and up to MaxLen digits or *)
(* points (numbers of either sign, zero, texts that are no number), then   *)
(* one run of the effect.  The type=number inputs of src/unnamed/part_000  *)
(* store signed numbers; the filtered inputs of src/src/App.jsx do not.    *)
(***************************************************************************)
Alphabet == {"0", "1", "."}

Signs == {<<>>, <<"-">>}

RECURSIVE StringsOver(_, _)
StringsOver(A, n) ==
    IF n = 0 THEN {<<>>}
    ELSE LET shorter == StringsOver(A, n - 1)
         IN  shorter \cup {Append(s, c) : s \in shorter, c \in A}

RawStrings == {sg \o body : sg \in Signs, body \in StringsOver(Alphabet, MaxLen)}

\* the figures the placeholders of the four fields suggest: 500,000 and
\* 1,500,000 and 12.5 and 120,000, as the fields store them (no commas)
PlaceholderInputs ==
    [investmentCost |-> <<"5", "0", "0", "0", "0", "0">>,
     annualNetSales |-> <<"1", "5", "0", "0", "0", "0", "0">>,
     ebitdaPercentage |-> <<"1", "2", ".", "5">>,
     annualRentCam |-> <<"1", "2", "0", "0", "0", "0">>]

MetricsInit ==
    /\ \/ /\ investmentCost \in RawStrings
          /\ annualNetSales \in RawStrings
          /\ ebitdaPercentage \in RawStrings
          /\ annualRentCam \in RawStrings
       \/ /\ investmentCost = PlaceholderInputs.investmentCost
          /\ annualNetSales = PlaceholderInputs.annualNetSales
          /\ ebitdaPercentage = PlaceholderInputs.ebitdaPercentage
          /\ annualRentCam = PlaceholderInputs.annualRentCam
    /\ salesToInvestmentRatio = Null
    /\ paybackPeriod = Null
    /\ roi = Null
    /\ rentFactor = Null
    /\ effectPending = TRUE
    /\ NoCall
    /\ NoEvent

MetricsNext == Effect

MetricsSpec == MetricsInit /\ [][MetricsNext]_vars

(***************************************************************************)
(* getBenchmarkStatus as a function of its three arguments: a metric value *)
(* (null or a finite number), one of the entries of benchmarks, a metric   *)
(* kind (the four of the program and two it does not know), then one call. *)
(***************************************************************************)
Files == {"src/App.jsx", "src/unnamed/part_000"}

MetricKinds == {"salesToInvestmentRatio", "paybackPeriod", "roi", "rentFactor"}

UnknownKinds == {"", "margin"}

Values ==
    {Null} \cup {Num(n, d) : n \in -MaxNum..MaxNum, d \in 1..MaxDen}

BenchmarkArgs ==
    {benchmarks.salesToInvestmentRatio, benchmarks.paybackPeriod,
     benchmarks.roi, benchmarks.rentFactor}

ClassifyInit ==
    /\ investmentCost = <<>>
    /\ annualNetSales = <<>>
    /\ ebitdaPercentage = <<>>
    /\ annualRentCam = <<>>
    /\ salesToInvestmentRatio = Null
    /\ paybackPeriod = Null
    /\ roi = Null
    /\ rentFactor = Null
    /\ effectPending = FALSE
    /\ file \in Files
    /\ value \in Values
    /\ benchmark \in BenchmarkArgs
    /\ type \in MetricKinds \cup UnknownKinds
    /\ status = NotCalled
    /\ NoEvent

ClassifyApp ==
    /\ file = "src/App.jsx"
    /\ status = NotCalled
    /\ status' = getBenchmarkStatus(value, benchmark, type)
    /\ UNCHANGED <<inputs, metrics, effectPending, file, value, benchmark, type,
                   event>>

ClassifyPart000 ==
    /\ file = "src/unnamed/part_000"
    /\ status = NotCalled
    /\ status' = getBenchmarkStatus_part_000(value, benchmark, type)
    /\ UNCHANGED <<inputs, metrics, effectPending, file, value, benchmark, type,
                   event>>

ClassifyNext == ClassifyApp \/ ClassifyPart000

ClassifySpec == ClassifyInit /\ [][ClassifyNext]_vars

(***************************************************************************)
(* The App component of src/src/App.jsx: the four fields start empty, the  *)
(* effect runs once after the mount, and each change event that stores a   *)
(* new text schedules the effect again.  React runs a scheduled effect     *)
(* before it handles the next event, so a change event waits for it.       *)
(***************************************************************************)
\* a pasted number too large for a double: 1 followed by 309 zeros
Huge == [i \in 1..310 |-> IF i = 1 THEN "1" ELSE "0"]

Incoming == StringsOver(EventAlphabet, MaxIncoming) \cup {Huge}

Init ==
    /\ investmentCost = <<>>
    /\ annualNetSales = <<>>
    /\ ebitdaPercentage = <<>>
    /\ annualRentCam = <<>>
    /\ salesToInvestmentRatio = Null
    /\ paybackPeriod = Null
    /\ roi = Null
    /\ rentFactor = Null
    /\ effectPending = TRUE
    /\ NoCall
    /\ NoEvent

ChangeInvestmentCost ==
    /\ ~effectPending
    /\ \E txt \in Incoming :
          /\ investmentCost' = handleChange(investmentCost, txt)
          /\ effectPending' = (investmentCost' # investmentCost)
    /\ UNCHANGED <<annualNetSales, ebitdaPercentage, annualRentCam,
                   metrics, call, event>>

ChangeAnnualNetSales ==
    /\ ~effectPending
    /\ \E txt \in Incoming :
          /\ annualNetSales' = handleChange(annualNetSales, txt)
          /\ effectPending' = (annualNetSales' # annualNetSales)
    /\ UNCHANGED <<investmentCost, ebitdaPercentage, annualRentCam,
                   metrics, call, event>>

ChangeEbitdaPercentage ==
    /\ ~effectPending
    /\ \E txt \in Incoming :
          /\ ebitdaPercentage' = handleChange(ebitdaPercentage, txt)
          /\ effectPending' = (ebitdaPercentage' # ebitdaPercentage)
    /\ UNCHANGED <<investmentCost, annualNetSales, annualRentCam,
                   metrics, call, event>>

ChangeAnnualRentCam ==
    /\ ~effectPending
    /\ \E txt \in Incoming :
          /\ annualRentCam' = handleChange(annualRentCam, txt)
          /\ effectPending' = (annualRentCam' # annualRentCam)
    /\ UNCHANGED <<investmentCost, annualNetSales, ebitdaPercentage,
                   metrics, call, event>>

Next ==
    \/ Effect
    \/ ChangeInvestmentCost
    \/ ChangeAnnualNetSales
    \/ ChangeEbitdaPercentage
    \/ ChangeAnnualRentCam

Spec == Init /\ [][Next]_vars

\* A run of the scheduled effect, by what it does to the flag: Effect is
\* enabled exactly when effectPending holds, and it is the one action of
\* Next that clears the flag.
EffectRuns == effectPending /\ effectPending' = FALSE

\* React runs every effect it has scheduled
FairSpec == Spec /\ WF_effectPending(EffectRuns)

(***************************************************************************)
(* One InputField of the App on its own: a '$' field (Total Investment     *)
(* Cost) or the '%' field (EBITDA), chosen at the start, receives change   *)
(* events of any text up to MaxTyped characters, and the state keeps the   *)
(* text of the last event next to what the field stored.                   *)
(***************************************************************************)
TypedAlphabet == {"1", ".", ",", "-"}

Typed == StringsOver(TypedAlphabet, MaxTyped)

FieldInit ==
    /\ investmentCost = <<>>
    /\ annualNetSales = <<>>
    /\ ebitdaPercentage = <<>>
    /\ annualRentCam = <<>>
    /\ salesToInvestmentRatio = Null
    /\ paybackPeriod = Null
    /\ roi = Null
    /\ rentFactor = Null
    /\ effectPending = TRUE
    /\ NoCall
    /\ unit \in {"$", "%"}
    /\ incoming = <<>>

FieldChange ==
    /\ ~effectPending
    /\ \E txt \in Typed :
          /\ incoming' = txt
          /\ IF unit = "$"
             THEN /\ investmentCost' = handleChange(investmentCost, txt)
                  /\ effectPending' = (investmentCost' # investmentCost)
                  /\ UNCHANGED ebitdaPercentage
             ELSE /\ ebitdaPercentage' = handleChange(ebitdaPercentage, txt)
                  /\ effectPending' = (ebitdaPercentage' # ebitdaPercentage)
                  /\ UNCHANGED investmentCost
    /\ UNCHANGED <<annualNetSales, annualRentCam, metrics, call, unit>>

FieldNext == Effect \/ FieldChange

FieldSpec == FieldInit /\ [][FieldNext]_vars

(***************************************************************************)
(* Properties of calculateMetrics (checked under MetricsSpec).             *)
(***************************************************************************)
\* the four parsed inputs, as the properties below read them
Tic == parseFloat(investmentCost)

Pans == parseFloat(annualNetSales)

EbitdaPct == parseFloat(ebitdaPercentage)

Arc == parseFloat(annualRentCam)

\* calculateMetrics has run on the inputs of the state
Calculated == ~effectPending

\* A text without a leading decimal literal: after an optional sign it
\* starts neither with a digit nor with a point followed by a digit.  The
\* empty text is one of them.
NonNumeric(s) ==
    LET u == IF Len(s) > 0 /\ s[1] \in {"+", "-"} THEN Tail(s) ELSE s
    IN  ~ \/ (Len(u) >= 1 /\ u[1] \in Digits)
          \/ (Len(u) >= 2 /\ u[1] = "." /\ u[2] \in Digits)

AllNumeric ==
    /\ ~NonNumeric(investmentCost)
    /\ ~NonNumeric(annualNetSales)
    /\ ~NonNumeric(ebitdaPercentage)
    /\ ~NonNumeric(annualRentCam)

Present(m) == m # Null

\* a present metric that is an ordinary (finite) number
Finite(m) == m.k = "num"

\* the sign of the product annualNetSales * ebitdaFraction
PaeSign == Sign(Pans.n) * Sign(EbitdaPct.n)

\* C1: whenever at least one of the four raw inputs is empty or
\* non-numeric, calculateMetrics leaves all four metrics null.
C1_AllOrNothingGate ==
    (Calculated /\ ~AllNumeric) =>
        /\ salesToInvestmentRatio = Null
        /\ paybackPeriod = Null
        /\ roi = Null
        /\ rentFactor = Null

\* C1 witness: three positive inputs and an empty annualRentCam, after the
\* run: nothing was computed from the three valid inputs.
C1_Witness ==
    /\ Calculated
    /\ investmentCost = <<"1">>
    /\ annualNetSales = <<"1">>
    /\ ebitdaPercentage = <<"1">>
    /\ annualRentCam = <<>>
    /\ salesToInvestmentRatio = Null
    /\ rentFactor = Null

\* C2 as stated, read in the way most favourable to it (the other three
\* inputs valid and positive): with investmentCost = 0,
\* salesToInvestmentRatio, roi and paybackPeriod are null and rentFactor is
\* not.
C2_Original ==
    (/\ Calculated
     /\ AllNumeric
     /\ Tic.n = 0
     /\ Pans.n > 0
     /\ EbitdaPct.n > 0
     /\ Arc.n > 0) =>
        /\ salesToInvestmentRatio = Null
        /\ roi = Null
        /\ paybackPeriod = Null
        /\ Present(rentFactor)

\* C2 as amended: with investmentCost = 0 and the other three inputs valid,
\* salesToInvestmentRatio and roi are null; paybackPeriod is present, and
\* then equal to 0, exactly when annualNetSales * ebitdaFraction > 0;
\* rentFactor is present exactly when annualNetSales > 0.
C2_ZeroInvestment ==
    (Calculated /\ AllNumeric /\ Tic.n = 0) =>
        /\ salesToInvestmentRatio = Null
        /\ roi = Null
        /\ Present(paybackPeriod) <=> PaeSign > 0
        /\ Present(paybackPeriod) => paybackPeriod = Zero
        /\ Present(rentFactor) <=> Pans.n > 0

\* C2 witness: investmentCost "0", the others "1": a payback period of 0
\* beside a null ratio and a rent factor of 100.
C2_Witness ==
    /\ Calculated
    /\ investmentCost = <<"0">>
    /\ annualNetSales = <<"1">>
    /\ ebitdaPercentage = <<"1">>
    /\ annualRentCam = <<"1">>
    /\ salesToInvestmentRatio = Null
    /\ roi = Null
    /\ paybackPeriod = Zero
    /\ rentFactor = Hundred

C4_IndependentGuards ==
    (Calculated /\ AllNumeric) =>
        /\ Present(salesToInvestmentRatio) <=> Tic.n > 0
        /\ Present(paybackPeriod) <=> PaeSign > 0
        /\ Present(roi) <=> Tic.n > 0
        /\ Present(rentFactor) <=> Pans.n > 0

\* C4 witness: annualNetSales and the EBITDA percentage both negative with
\* a positive investmentCost: the rent factor is null while ratio, payback
\* and roi are present.
C4_Witness ==
    /\ Calculated
    /\ AllNumeric
    /\ Tic.n > 0
    /\ Pans.n < 0
    /\ EbitdaPct.n < 0
    /\ rentFactor = Null
    /\ Present(salesToInvestmentRatio)
    /\ Present(paybackPeriod)
    /\ Present(roi)

\* the EBITDA percentage as entered (before the division by 100)
Ebitda == parseFloat(ebitdaPercentage)

\* C11: for valid inputs each metric whose guard holds is present and has
\* the value of its formula (stated here on cross products):
\* ratio = sales / cost, payback = cost / (sales * ebitda / 100),
\* roi = (sales * ebitda / 100) / cost * 100, rent factor = rent / sales *
\* 100; the inputs 500000, 1500000, 12.5, 120000 give 3, 8/3, 37.5 and 8.
C11_MetricFormulas ==
    (Calculated /\ AllNumeric) =>
        /\ Tic.n > 0 =>
              /\ Present(salesToInvestmentRatio)
              /\ salesToInvestmentRatio.n * Tic.n * Pans.d
                    = Pans.n * Tic.d * salesToInvestmentRatio.d
              /\ Present(roi)
              /\ roi.n * Tic.n * Pans.d * Ebitda.d
                    = Pans.n * Ebitda.n * Tic.d * roi.d
        /\ PaeSign > 0 =>
              /\ Present(paybackPeriod)
              /\ paybackPeriod.n * Pans.n * Ebitda.n * Tic.d
                    = 100 * Tic.n * Pans.d * Ebitda.d * paybackPeriod.d
        /\ Pans.n > 0 =>
              /\ Present(rentFactor)
              /\ rentFactor.n * Pans.n * Arc.d
                    = 100 * Arc.n * Pans.d * rentFactor.d
        /\ inputs = <<PlaceholderInputs.investmentCost,
                      PlaceholderInputs.annualNetSales,
                      PlaceholderInputs.ebitdaPercentage,
                      PlaceholderInputs.annualRentCam>> =>
              /\ salesToInvestmentRatio = [k |-> "num", n |-> 3, d |-> 1]
              /\ paybackPeriod = [k |-> "num", n |-> 8, d |-> 3]
              /\ roi = [k |-> "num", n |-> 75, d |-> 2]
              /\ rentFactor = [k |-> "num", n |-> 8, d |-> 1]

\* C11 witness: the placeholder figures after the run, with a payback
\* period of 8/3 and a roi of 37.5.
C11_Witness ==
    /\ Calculated
    /\ investmentCost = PlaceholderInputs.investmentCost
    /\ annualNetSales = PlaceholderInputs.annualNetSales
    /\ ebitdaPercentage = PlaceholderInputs.ebitdaPercentage
    /\ annualRentCam = PlaceholderInputs.annualRentCam
    /\ paybackPeriod = [k |-> "num", n |-> 8, d |-> 3]
    /\ roi = [k |-> "num", n |-> 75, d |-> 2]

(***************************************************************************)
(* Properties of getBenchmarkStatus (checked under ClassifySpec).          *)
(***************************************************************************)
\* the call of the state has returned
Called == status # NotCalled

\* value > n/d, value = n/d and value < n/d for a present value
Above(v, n, d) == v.n * d > n * v.d

Equal(v, n, d) == v.n * d = n * v.d

Below(v, n, d) == v.n * d < n * v.d

\* C5: a present roi classified against the benchmark 20 is 'Meets Target'
\* (green) when above 20 and 'Below Target' (red) otherwise, 20 included.
C5_RoiClassification ==
    (Called /\ type = "roi" /\ benchmark = benchmarks.roi /\ Present(value)) =>
        status = IF Above(value, 20, 1)
                 THEN Status("Meets Target", "text-green-600")
                 ELSE Status("Below Target", "text-red-600")

C7_RentFactorClassification ==
    (/\ Called
     /\ type = "rentFactor"
     /\ benchmark = benchmarks.rentFactor
     /\ Present(value)) =>
        status = IF Below(value, 10, 1)
                 THEN Status("Meets Target", "text-green-600")
                 ELSE Status("High", "text-red-600")

\* C7 witness: the rent factor 10 itself, classified 'High'.
C7_Witness ==
    /\ Called
    /\ file = "src/App.jsx"
    /\ type = "rentFactor"
    /\ benchmark = benchmarks.rentFactor
    /\ value = Num(10, 1)
    /\ status = Status("High", "text-red-600")

\* C8: a present sales-to-investment ratio classified against the benchmark
\* 1.5 is 'Meets Target' (green) when above 1.5 and 'Below Target' (red)
\* otherwise, 1.5 included.
C8_RatioClassification ==
    (/\ Called
     /\ type = "salesToInvestmentRatio"
     /\ benchmark = benchmarks.salesToInvestmentRatio
     /\ Present(value)) =>
        status = IF Above(value, 3, 2)
                 THEN Status("Meets Target", "text-green-600")
                 ELSE Status("Below Target", "text-red-600")

\* C8 witness: the ratio 1.5 itself, classified 'Below Target'.
C8_Witness ==
    /\ Called
    /\ file = "src/App.jsx"
    /\ type = "salesToInvestmentRatio"
    /\ benchmark = benchmarks.salesToInvestmentRatio
    /\ value = Num(3, 2)
    /\ status = Status("Below Target", "text-red-600")

\* C9: a null value is classified 'N/A' (gray) whatever the metric kind,
\* known or not, and whatever the benchmark.
C9_NullIsNA ==
    (Called /\ value = Null) => status = Status("N/A", "text-gray-500")

\* C9 witness: null classified as a payback period against a benchmark that
\* is a number, where a comparison would have answered 'High Risk'.
C9_Witness ==
    /\ Called
    /\ file = "src/App.jsx"
    /\ value = Null
    /\ type = "paybackPeriod"
    /\ benchmark = benchmarks.rentFactor
    /\ status = Status("N/A", "text-gray-500")

\* C10: a present value classified under a kind that is none of the four
\* metric kinds gets the empty status (empty text, empty colour).
C10_UnknownKindNeutral ==
    (Called /\ Present(value) /\ type \notin MetricKinds) =>
        status = Status("", "")

\* C10 witness: the value 21 classified under the kind 'margin'.
C10_Witness ==
    /\ Called
    /\ file = "src/App.jsx"
    /\ type = "margin"
    /\ value = Num(21, 1)
    /\ status = Status("", "")

(***************************************************************************)
(* Properties of the App as it reacts to change events (checked under      *)
(* FairSpec, Spec and FieldSpec).                                          *)
(***************************************************************************)
\* what calculateMetrics stores for the four inputs of the state
Recomputed ==
    LET m == calculateMetrics(investmentCost, annualNetSales,
                              ebitdaPercentage, annualRentCam)
    IN  <<m.salesToInvestmentRatio, m.paybackPeriod, m.roi, m.rentFactor>>

\* C12: every change of an input schedules a run of calculateMetrics, the
\* scheduled run eventually happens, and whenever no run is outstanding the
\* four stored metrics are what the computation gives on the four inputs of
\* the state alone, whatever the inputs and the metrics were before.
C12_ReactiveRecomputation ==
    /\ [][inputs' # inputs => effectPending']_vars
    /\ effectPending ~> Calculated
    /\ [](Calculated => metrics = Recomputed)

\* C12 witness: after at least four change events and their runs, the inputs
\* 1, 1, 1, 1 with the metrics computed from them.
C12_Witness ==
    /\ Calculated
    /\ investmentCost = <<"1">>
    /\ annualNetSales = <<"1">>
    /\ ebitdaPercentage = <<"1">>
    /\ annualRentCam = <<"1">>
    /\ salesToInvestmentRatio = Num(1, 1)
    /\ paybackPeriod = Num(100, 1)
    /\ roi = Num(1, 1)
    /\ rentFactor = Num(100, 1)

\* empty, or only digits and points with at most one point (so no comma)
HasShape(s) ==
    /\ \A i \in 1..Len(s) : s[i] \in Digits \cup {"."}
    /\ Cardinality({i \in 1..Len(s) : s[i] = "."}) <= 1

\* C13: from empty fields, what a '$' or '%' InputField has stored is always
\* empty or digits with at most one decimal point, and a change event whose
\* text without its commas is not of that shape changes no stored value.
C13_RawInputFormat ==
    /\ [](HasShape(investmentCost) /\ HasShape(ebitdaPercentage))
    /\ [][~HasShape(stripCommas(incoming')) => inputs' = inputs]_vars

\* C13 witness: the '$' field holds "1." and has just refused the text "1..".
C13_Witness ==
    /\ unit = "$"
    /\ investmentCost = <<"1", ".">>
    /\ incoming = <<"1", ".", ".">>

\* a number greater than or equal to zero, Infinity included
NonNegative(m) ==
    \/ m.k = "num" /\ m.n >= 0
    \/ m.k = "inf" /\ m.n > 0

\* C14: in every state reached through the filtered fields, once
\* calculateMetrics has run, each metric that is present is a number
\* greater than or equal to zero, and roi is present exactly when
\* salesToInvestmentRatio is.
C14_NonNegativeMetrics ==
    Calculated =>
        /\ \A i \in 1..4 : Present(metrics[i]) => NonNegative(metrics[i])
        /\ Present(roi) <=> Present(salesToInvestmentRatio)

=============================================================================
